---- MODULE Spec2Model ----
(***************************************************************************)
(* Loading of the three Tailwind configuration files of the repository     *)
(* (src/tailwind.config.js, src/unnamed/part_000, src/unnamed/part_001)    *)
(* by a CommonJS loader, and the reading of the exported configuration by  *)
(* the styling tool, which matches file paths against the content globs.   *)
(*                                                                         *)
(* JavaScript values are modelled with their dynamic type:                 *)
(*   string  [type |-> "string", chars |-> sequence of characters]         *)
(*   array   [type |-> "array",  items |-> sequence of values]             *)
(*   object  [type |-> "object", props |-> function from keys to values]   *)
(*   module  [type |-> "module", name  |-> name given to require()]        *)
(*   number  [type |-> "number"] (no number literal occurs in the files)   *)
(***************************************************************************)
EXTENDS Integers, Sequences, FiniteSets, TLC

VARIABLES
    file,        \* the configuration file being loaded
    pc,          \* position of the loader in the file
    exports,     \* module.exports of the file
    resolvable,  \* whether require("daisyui") can resolve the package
    calls,       \* number of function calls made while loading
    writes,      \* number of assignments made to module.exports
    path,        \* file path the styling tool last looked at (<<>>: none yet)
    matched      \* whether that path was matched by exports.content

vars == <<file, pc, exports, resolvable, calls, writes, path, matched>>

\* Largest number of directory levels of a scanned file path.
MaxDepth == 3

---------------------------------------------------------------------------
(* JavaScript values *)

Str(cs) == [type |-> "string", chars |-> cs]
Arr(xs) == [type |-> "array", items |-> xs]
Obj(f) == [type |-> "object", props |-> f]
Module(n) == [type |-> "module", name |-> n]

\* The value of module.exports before the file assigns it: {}.
EmptyObject == Obj(<<>>)

Files == {"tailwind.config.js", "part_000", "part_001"}

---------------------------------------------------------------------------
(* src/tailwind.config.js *)

FirstContent ==
    Arr(<< Str(<<".","/","t","e","m","p","l","a","t","e","s","/","*","*","/","*",".","h","t","m","l">>) >>)

FirstObject ==
    Obj( "content"  :> FirstContent
      @@ "darkMode" :> Str(<<"m","e","d","i","a">>)
      @@ "theme"    :> Obj("extend" :> Obj(<<>>))
      @@ "plugins"  :> Arr(<< Module("daisyui") >>) )

SecondContent ==
    Arr(<< Str(<<".","/","t","e","m","p","l","a","t","e","s","/","*","*","/","*",".","h","t","m","l">>),
           Str(<<".","/","a","p","p","s","/","*","*","/","*",".","h","t","m","l">>),
           Str(<<".","/","a","p","p","s","/","*","*","/","t","e","m","p","l","a","t","e","s","/","*","*","/","*",".","h","t","m","l">>) >>)


\* SecondColors with a digit of primary-dark dropped.
SecondColorsTypo ==
    Obj( "primary"      :> Str(<<"#","2","E","7","D","3","2">>)
      @@ "primary-dark" :> Str(<<"#","1","B","5","E","2">>)
      @@ "accent"       :> Str(<<"#","4","C","A","F","5","0">>) )

SecondColors ==
    Obj( "primary"      :> Str(<<"#","2","E","7","D","3","2">>)
      @@ "primary-dark" :> Str(<<"#","1","B","5","E","2","0">>)
      @@ "accent"       :> Str(<<"#","4","C","A","F","5","0">>) )

SecondObject ==
    Obj( "content" :> SecondContent
      @@ "theme"   :> Obj("extend" :> Obj("colors" :> SecondColors))
      @@ "plugins" :> Arr(<< >>) )

---------------------------------------------------------------------------
(* src/unnamed/part_000 *)


\* Part000Content with the apps pattern one directory level deep only.
Part000ContentShallow ==
    Arr(<< Str(<<".","/","t","e","m","p","l","a","t","e","s","/","*","*","/","*",".","h","t","m","l">>),
           Str(<<".","/","a","p","p","s","/","*",".","h","t","m","l">>),
           Str(<<".","/","a","p","p","s","/","*","*","/","t","e","m","p","l","a","t","e","s","/","*","*","/","*",".","h","t","m","l">>),
           Str(<<".","/","s","t","a","t","i","c","/","j","s","/","*","*","/","*",".","j","s">>) >>)

Part000Content ==
    Arr(<< Str(<<".","/","t","e","m","p","l","a","t","e","s","/","*","*","/","*",".","h","t","m","l">>),
           Str(<<".","/","a","p","p","s","/","*","*","/","*",".","h","t","m","l">>),
           Str(<<".","/","a","p","p","s","/","*","*","/","t","e","m","p","l","a","t","e","s","/","*","*","/","*",".","h","t","m","l">>),
           Str(<<".","/","s","t","a","t","i","c","/","j","s","/","*","*","/","*",".","j","s">>) >>)

Part000Colors ==
    Obj( "primary" :> Obj( "50"  :> Str(<<"#","f","0","f","d","f","4">>)
                        @@ "100" :> Str(<<"#","d","c","f","c","e","7">>)
                        @@ "200" :> Str(<<"#","b","b","f","7","d","0">>)
                        @@ "300" :> Str(<<"#","8","6","e","f","a","c">>)
                        @@ "400" :> Str(<<"#","4","a","d","e","8","0">>)
                        @@ "500" :> Str(<<"#","2","2","c","5","5","e">>)
                        @@ "600" :> Str(<<"#","1","6","a","3","4","a">>)
                        @@ "700" :> Str(<<"#","1","5","8","0","3","d">>)
                        @@ "800" :> Str(<<"#","1","6","6","5","3","4">>)
                        @@ "900" :> Str(<<"#","1","4","5","3","2","d">>) )
      @@ "danger"  :> Obj( "600" :> Str(<<"#","d","c","2","6","2","6">>)
                        @@ "700" :> Str(<<"#","b","9","1","c","1","c">>) ) )

Part000FontFamily ==
    Obj( "sans" :> Arr(<< Str(<<"I","n","t","e","r">>), Str(<<"s","y","s","t","e","m","-","u","i">>), Str(<<"s","a","n","s","-","s","e","r","i","f">>) >>) )


\* Part000Object with the plugins key misspelt.
Part000ObjectPluginKey ==
    Obj( "content" :> Part000Content
      @@ "theme"   :> Obj("extend" :> Obj( "colors"     :> Part000Colors
                                        @@ "fontFamily" :> Part000FontFamily ))
      @@ "plugin"  :> Arr(<< >>) )

Part000Object ==
    Obj( "content" :> Part000Content
      @@ "theme"   :> Obj("extend" :> Obj( "colors"     :> Part000Colors
                                        @@ "fontFamily" :> Part000FontFamily ))
      @@ "plugins" :> Arr(<< >>) )

---------------------------------------------------------------------------
(* src/unnamed/part_001 *)


\* Part001Content with the apps pattern one directory level deep only.
Part001ContentShallow ==
    Arr(<< Str(<<".","/","t","e","m","p","l","a","t","e","s","/","*","*","/","*",".","h","t","m","l">>),
           Str(<<".","/","a","p","p","s","/","*",".","h","t","m","l">>),
           Str(<<".","/","s","t","a","t","i","c","_","s","r","c","/","*","*","/","*",".","j","s">>),
           Str(<<".","/","t","e","m","p","l","a","t","e","s","/","p","a","r","t","i","a","l","s","/","*","*","/","*",".","h","t","m","l">>) >>)

Part001Content ==
    Arr(<< Str(<<".","/","t","e","m","p","l","a","t","e","s","/","*","*","/","*",".","h","t","m","l">>),
           Str(<<".","/","a","p","p","s","/","*","*","/","*",".","h","t","m","l">>),
           Str(<<".","/","s","t","a","t","i","c","_","s","r","c","/","*","*","/","*",".","j","s">>),
           Str(<<".","/","t","e","m","p","l","a","t","e","s","/","p","a","r","t","i","a","l","s","/","*","*","/","*",".","h","t","m","l">>) >>)

Part001Colors ==
    Obj( "primary" :> Obj( "DEFAULT" :> Str(<<"#","2","E","7","D","3","2">>)
                        @@ "50"  :> Str(<<"#","f","0","f","d","f","4">>)
                        @@ "100" :> Str(<<"#","d","c","f","c","e","7">>)
                        @@ "200" :> Str(<<"#","b","b","f","7","d","0">>)
                        @@ "300" :> Str(<<"#","8","6","e","f","a","c">>)
                        @@ "400" :> Str(<<"#","4","a","d","e","8","0">>)
                        @@ "500" :> Str(<<"#","2","2","c","5","5","e">>)
                        @@ "600" :> Str(<<"#","1","6","a","3","4","a">>)
                        @@ "700" :> Str(<<"#","1","5","8","0","3","d">>)
                        @@ "800" :> Str(<<"#","1","6","6","5","3","4">>)
                        @@ "900" :> Str(<<"#","1","4","5","3","2","d">>) )
      @@ "secondary" :> Str(<<"#","4","3","A","0","4","7">>)
      @@ "danger"    :> Str(<<"#","D","3","2","F","2","F">>)
      @@ "warning"   :> Str(<<"#","F","5","7","C","0","0">>)
      @@ "info"      :> Str(<<"#","1","9","7","6","D","2">>)
      @@ "muted"     :> Str(<<"#","6","B","7","2","8","0">>) )

Part001Spacing ==
    Obj( "128" :> Str(<<"3","2","r","e","m">>)
      @@ "144" :> Str(<<"3","6","r","e","m">>) )

Part001FontFamily ==
    Obj( "sans" :> Arr(<< Str(<<"I","n","t","e","r">>), Str(<<"s","y","s","t","e","m","-","u","i">>), Str(<<"s","a","n","s","-","s","e","r","i","f">>) >>) )

Part001Object ==
    Obj( "content" :> Part001Content
      @@ "theme"   :> Obj("extend" :> Obj( "colors"     :> Part001Colors
                                        @@ "spacing"    :> Part001Spacing
                                        @@ "fontFamily" :> Part001FontFamily ))
      @@ "plugins" :> Arr(<< >>) )

---------------------------------------------------------------------------
(* Loading a file *)

Init ==
    /\ file \in Files
    /\ pc = "start"
    /\ exports = EmptyObject
    /\ resolvable \in BOOLEAN
    /\ calls = 0
    /\ writes = 0
    /\ path = << >>
    /\ matched = FALSE

\* RequireDaisyui with the failure of require swallowed.
RequireDaisyuiSwallowed ==
    /\ file = "tailwind.config.js"
    /\ pc = "start"
    /\ calls' = calls + 1
    /\ pc' = "assign1"
    /\ UNCHANGED <<file, exports, resolvable, writes, path, matched>>

\* tailwind.config.js line 8: the first object literal is built before it is
\* assigned, and building it calls require("daisyui"), which throws when the
\* package cannot be resolved.
RequireDaisyui ==
    /\ file = "tailwind.config.js"
    /\ pc = "start"
    /\ calls' = calls + 1
    /\ pc' = IF resolvable THEN "assign1" ELSE "failed"
    /\ UNCHANGED <<file, exports, resolvable, writes, path, matched>>

\* tailwind.config.js lines 2-9.
AssignFirst ==
    /\ file = "tailwind.config.js"
    /\ pc = "assign1"
    /\ exports' = FirstObject
    /\ writes' = writes + 1
    /\ pc' = "assign2"
    /\ UNCHANGED <<file, resolvable, calls, path, matched>>

\* AssignSecond with the second assignment left out.
AssignSecondDropped ==
    /\ file = "tailwind.config.js"
    /\ pc = "assign2"
    /\ pc' = "done"
    /\ UNCHANGED <<file, exports, resolvable, calls, writes, path, matched>>

\* tailwind.config.js lines 13-29.
AssignSecond ==
    /\ file = "tailwind.config.js"
    /\ pc = "assign2"
    /\ exports' = SecondObject
    /\ writes' = writes + 1
    /\ pc' = "done"
    /\ UNCHANGED <<file, resolvable, calls, path, matched>>

\* part_000 lines 2-38.
AssignPart000 ==
    /\ file = "part_000"
    /\ pc = "start"
    /\ exports' = Part000Object
    /\ writes' = writes + 1
    /\ pc' = "done"
    /\ UNCHANGED <<file, resolvable, calls, path, matched>>

\* part_001 lines 2-60.
AssignPart001 ==
    /\ file = "part_001"
    /\ pc = "start"
    /\ exports' = Part001Object
    /\ writes' = writes + 1
    /\ pc' = "done"
    /\ UNCHANGED <<file, resolvable, calls, path, matched>>

---------------------------------------------------------------------------
(* Reading the configuration: the styling tool matches the path of a file  *)
(* of the project, given relative to the project root as its sequence of   *)
(* segments, against the glob patterns of exports.content.  In a pattern   *)
(* the segment ** stands for zero or more directory levels and * for any   *)
(* run of characters inside one segment.                                   *)

RECURSIVE Split(_)
\* The "/"-separated segments of a character sequence.
Split(cs) ==
    IF cs = << >> THEN << << >> >>
    ELSE LET rest == Split(Tail(cs))
         IN  IF Head(cs) = "/"
             THEN << << >> >> \o rest
             ELSE << << Head(cs) >> \o Head(rest) >> \o Tail(rest)

\* The segments of a pattern, relative to the project root: "./" and empty
\* segments do not name a directory level.
PatternSegments(pattern) ==
    SelectSeq(Split(pattern.chars), LAMBDA s : s # << >> /\ s # << "." >>)

RECURSIVE SegMatch(_, _)
\* One pattern segment against one path segment.
SegMatch(pat, seg) ==
    IF pat = << >> THEN seg = << >>
    ELSE IF Head(pat) = "*"
         THEN \/ SegMatch(Tail(pat), seg)
              \/ seg # << >> /\ SegMatch(pat, Tail(seg))
         ELSE /\ seg # << >>
              /\ Head(seg) = Head(pat)
              /\ SegMatch(Tail(pat), Tail(seg))

RECURSIVE GlobMatch(_, _)
\* A sequence of pattern segments against a sequence of path segments.
GlobMatch(ps, segs) ==
    IF ps = << >> THEN segs = << >>
    ELSE IF Head(ps) = << "*", "*" >>
         THEN \/ GlobMatch(Tail(ps), segs)
              \/ Len(segs) > 1 /\ GlobMatch(ps, Tail(segs))
         ELSE /\ segs # << >>
              /\ SegMatch(Head(ps), Head(segs))
              /\ GlobMatch(Tail(ps), Tail(segs))

Matches(pattern, p) == GlobMatch(PatternSegments(pattern), p)

\* A path is scanned when at least one pattern of the content list matches.
MatchesAny(content, p) ==
    \E i \in 1..Len(content.items) : Matches(content.items[i], p)

DirNames == { <<"t","e","m","p","l","a","t","e","s">>, <<"a","p","p","s">>, <<"p","a","r","t","i","a","l","s">> }
FileNames == { <<"b","a","s","e",".","h","t","m","l">>, <<"a","p","p",".","j","s">> }

\* File paths of at most MaxDepth directory levels.
Paths ==
    { d \o << f >> : d \in UNION { [1..k -> DirNames] : k \in 0..MaxDepth },
                     f \in FileNames }

\* The tool reads module.exports once the file has been loaded.
Scan(p) ==
    /\ pc = "done"
    /\ path' = p
    /\ matched' = MatchesAny(exports.props.content, p)
    /\ UNCHANGED <<file, pc, exports, resolvable, calls, writes>>

Next ==
    \/ RequireDaisyui
    \/ AssignFirst
    \/ AssignSecond
    \/ AssignPart000
    \/ AssignPart001
    \/ \E p \in Paths : Scan(p)

Spec == Init /\ [][Next]_vars

---------------------------------------------------------------------------
(* Properties *)

TemplatesHtml == Str(<<".","/","t","e","m","p","l","a","t","e","s","/","*","*","/","*",".","h","t","m","l">>)
AppsHtml == Str(<<".","/","a","p","p","s","/","*","*","/","*",".","h","t","m","l">>)
AppsTemplatesHtml == Str(<<".","/","a","p","p","s","/","*","*","/","t","e","m","p","l","a","t","e","s","/","*","*","/","*",".","h","t","m","l">>)
PartialsHtml == Str(<<".","/","t","e","m","p","l","a","t","e","s","/","p","a","r","t","i","a","l","s","/","*","*","/","*",".","h","t","m","l">>)

Loaded == pc = "done"
Scanned == path # << >>

TopLevelKeys == {"content", "theme", "darkMode", "plugins"}
DarkModeStrategies == { Str(<<"m","e","d","i","a">>), Str(<<"c","l","a","s","s">>), Str(<<"s","e","l","e","c","t","o","r">>) }

IsGlobList(v) ==
    /\ v.type = "array"
    /\ Len(v.items) > 0
    /\ \A i \in 1..Len(v.items) : v.items[i].type = "string"

IsPluginList(v) ==
    /\ v.type = "array"
    /\ \A i \in 1..Len(v.items) : v.items[i].type = "module"

HasKey(o, k) == o.type = "object" /\ k \in DOMAIN o.props

\* content, theme.extend and plugins are present and well-typed, and no
\* top-level key is outside TopLevelKeys.
CoreShape(e) ==
    /\ e.type = "object"
    /\ DOMAIN e.props \subseteq TopLevelKeys
    /\ HasKey(e, "content") /\ IsGlobList(e.props.content)
    /\ HasKey(e, "theme") /\ HasKey(e.props.theme, "extend")
    /\ e.props.theme.props.extend.type = "object"
    /\ HasKey(e, "plugins") /\ IsPluginList(e.props.plugins)

\* C1 as stated: after a file is fully loaded its export has content,
\* theme.extend, darkMode (a value of the strategy set) and plugins, and no
\* other top-level key.
C1_ShapeWithDarkMode ==
    Loaded =>
        /\ CoreShape(exports)
        /\ HasKey(exports, "darkMode")
        /\ exports.props.darkMode \in DarkModeStrategies

\* C1 (amended): every object a file assigns to module.exports has content (a
\* non-empty sequence of strings), theme.extend (an object) and plugins (a
\* sequence of plugin references) and no top-level key outside content,
\* theme, darkMode, plugins; darkMode is optional: where it is set it is a
\* value of the strategy set, and no fully loaded file exports it.
C1_ExportShape ==
    /\ writes > 0 =>
          /\ CoreShape(exports)
          /\ HasKey(exports, "darkMode") =>
                exports.props.darkMode \in DarkModeStrategies
    /\ Loaded => ~HasKey(exports, "darkMode")

C1_Witness ==
    /\ Loaded
    /\ file = "part_000"
    /\ DOMAIN exports.props = {"content", "theme", "plugins"}

EndsWithHtml(seg) ==
    /\ Len(seg) >= 5
    /\ SubSeq(seg, Len(seg) - 4, Len(seg)) = <<".","h","t","m","l">>

\* p is a .html file at any directory depth under the top-level directory dir.
IsHtmlUnder(dir, p) ==
    /\ Len(p) >= 2
    /\ p[1] = dir
    /\ EndsWithHtml(p[Len(p)])

\* C2: for each file, every .html file at any depth under ./templates or
\* ./apps is matched by at least one pattern of the exported content list.
C2_HtmlCovered ==
    (Loaded /\ Scanned /\ (IsHtmlUnder(<<"t","e","m","p","l","a","t","e","s">>, path) \/ IsHtmlUnder(<<"a","p","p","s">>, path)))
        => matched

C2_Witness ==
    /\ Loaded
    /\ file = "part_001"
    /\ path = << <<"a","p","p","s">>, <<"p","a","r","t","i","a","l","s">>, <<"b","a","s","e",".","h","t","m","l">> >>
    /\ matched

\* C3 as stated: loading calls no function, writes the export at most once
\* and has no step that fails.
C3_NoLogic ==
    /\ calls = 0
    /\ writes <= 1
    /\ pc # "failed"

HexDigits ==
    { "0", "1", "2", "3", "4", "5", "6", "7", "8", "9",
      "a", "b", "c", "d", "e", "f", "A", "B", "C", "D", "E", "F" }
Digits == { "0", "1", "2", "3", "4", "5", "6", "7", "8", "9" }

IsHexColour(v) ==
    /\ v.type = "string"
    /\ Len(v.chars) = 7
    /\ v.chars[1] = "#"
    /\ \A i \in 2..7 : v.chars[i] \in HexDigits

RECURSIVE Leaves(_)
\* The values at the leaves of a nested object.
Leaves(v) ==
    IF v.type = "object"
    THEN UNION { Leaves(v.props[k]) : k \in DOMAIN v.props }
    ELSE { v }

\* The values of the section k of theme.extend (none when it is absent).
ExtendValues(e, k) ==
    LET extend == e.props.theme.props.extend
    IN  IF HasKey(extend, k)
        THEN { extend.props[k].props[n] : n \in DOMAIN extend.props[k].props }
        ELSE { }

IsFontStack(v) ==
    /\ v.type = "array"
    /\ Len(v.items) > 0
    /\ \A i \in 1..Len(v.items) :
          v.items[i].type = "string" /\ Len(v.items[i].chars) > 0

AllDigits(cs) == Len(cs) > 0 /\ \A i \in 1..Len(cs) : cs[i] \in Digits

IsNumeric(v) ==
    \/ v.type = "number"
    \/ v.type = "string" /\ AllDigits(v.chars)

\* A length in rem: decimal digits followed by the unit.
IsRemLength(v) ==
    /\ v.type = "string"
    /\ Len(v.chars) > 3
    /\ SubSeq(v.chars, Len(v.chars) - 2, Len(v.chars)) = <<"r","e","m">>
    /\ AllDigits(SubSeq(v.chars, 1, Len(v.chars) - 3))

ColourLeaves(e) == UNION { Leaves(v) : v \in ExtendValues(e, "colors") }

\* C4 as stated: every colour leaf is # and six hexadecimal digits, every
\* fontFamily entry is a sequence of font-name strings, and every spacing
\* value is numeric.
C4_SpacingNumeric ==
    writes > 0 =>
        /\ \A v \in ColourLeaves(exports) : IsHexColour(v)
        /\ \A v \in ExtendValues(exports, "fontFamily") : IsFontStack(v)
        /\ \A v \in ExtendValues(exports, "spacing") : IsNumeric(v)

\* C4 (amended): every colour leaf is # and six hexadecimal digits, every
\* fontFamily entry is a sequence of font-name strings, and every spacing
\* value is a string of decimal digits followed by the unit rem.
C4_ThemeLiterals ==
    writes > 0 =>
        /\ \A v \in ColourLeaves(exports) : IsHexColour(v)
        /\ \A v \in ExtendValues(exports, "fontFamily") : IsFontStack(v)
        /\ \A v \in ExtendValues(exports, "spacing") : IsRemLength(v)

C4_Witness ==
    /\ Loaded
    /\ file = "part_001"
    /\ Cardinality(ColourLeaves(exports)) > 10
    /\ ExtendValues(exports, "spacing") # { }
    /\ ExtendValues(exports, "fontFamily") # { }

\* C5: once tailwind.config.js is fully loaded its export is the second
\* object: the three content patterns, no plugin, no darkMode key; the tool
\* reads the export only then, so it never sees the first object.
C5_SecondObjectExported ==
    /\ (file = "tailwind.config.js" /\ Loaded) =>
          /\ exports.props.content.items =
                << TemplatesHtml, AppsHtml, AppsTemplatesHtml >>
          /\ exports.props.plugins.items = << >>
          /\ ~HasKey(exports, "darkMode")
          /\ writes = 2
    /\ Scanned => Loaded

C5_Witness ==
    /\ file = "tailwind.config.js"
    /\ Loaded
    /\ Scanned
    /\ exports = SecondObject

\* C6: when require("daisyui") fails in tailwind.config.js, loading stops
\* with module.exports never assigned: the export keeps its initial empty
\* value and the second object is never exported.
C6_FailedRequireExportsNothing ==
    /\ (file = "tailwind.config.js" /\ ~resolvable) =>
          /\ pc \in {"start", "failed"}
          /\ exports = EmptyObject
          /\ writes = 0
    /\ pc = "failed" => (file = "tailwind.config.js" /\ ~resolvable /\ calls = 1)

C6_Witness ==
    /\ pc = "failed"
    /\ exports = EmptyObject
    /\ ~ENABLED Next

\* The content list without one of its patterns.
Without(content, pattern) ==
    Arr(SelectSeq(content.items, LAMBDA x : x # pattern))

\* C7: every path matched by ./apps/**/templates/**/*.html is matched by
\* ./apps/**/*.html, every path matched by ./templates/partials/**/*.html is
\* matched by ./templates/**/*.html, and taking the subsumed pattern out of
\* the content list that holds it leaves the matched paths unchanged.
C7_SubsumedPatterns ==
    Scanned =>
        LET content == exports.props.content
        IN  /\ Matches(AppsTemplatesHtml, path) => Matches(AppsHtml, path)
            /\ Matches(PartialsHtml, path) => Matches(TemplatesHtml, path)
            /\ file \in {"tailwind.config.js", "part_000"} =>
                  MatchesAny(Without(content, AppsTemplatesHtml), path) = matched
            /\ file = "part_001" =>
                  MatchesAny(Without(content, PartialsHtml), path) = matched

C7_Witness ==
    /\ Scanned
    /\ file = "part_000"
    /\ path = << <<"a","p","p","s">>, <<"p","a","r","t","i","a","l","s">>, <<"t","e","m","p","l","a","t","e","s">>, <<"b","a","s","e",".","h","t","m","l">> >>
    /\ Matches(AppsTemplatesHtml, path)
    /\ Len(Without(exports.props.content, AppsTemplatesHtml).items) = 3
    /\ matched

====
